---- MODULE Spec2Model ----
(***************************************************************************)
(* A model of LatexSectionsGraph (src/latexSectionsGraph.py): the          *)
(* construction of the directed graph of the sections of a LaTeX document  *)
(* from the labels and the reference commands of its body.                 *)
(*                                                                         *)
(* The document is the node list of its `document` environment, as         *)
(* pylatexenc's LatexWalker gives it.  The constructor runs three stages   *)
(* over it: add_nodes (the label map), add_edges (the graph) and           *)
(* remove_lightly_connected_nodes (the pruning).  Each loop iteration of   *)
(* the two passes is one step of the model.                                *)
(***************************************************************************)
EXTENDS Naturals, Sequences, FiniteSets, Bags

(***************************************************************************)
(* Bounds of the model.                                                    *)
(***************************************************************************)
\* The longest document body, in nodes, over the alphabet Nodes.
MaxLen == 4
\* The longest document body, in nodes, over the smaller alphabet LongNodes.
MaxLenLong == 5
\* The largest node_threshold given to the constructor.
MaxThreshold == 3
\* The longest document body of a construction followed from the call of the
\* constructor, over the alphabet Nodes.
MaxLenInit == 2
\* The longest document body of a construction followed to its end under
\* fairness, over the alphabet LongNodes.
MaxLenFair == 4

\* Python's None, for a context slot that holds no title.  A title is never
\* the empty string or None, so `if prev_section:` is `prev_section # None`.
None == "None"

(***************************************************************************)
(* The document model: the nodes pylatexenc gives.                         *)
(*   type      "macro" (LatexMacroNode), "env" (LatexEnvironmentNode) or   *)
(*             "chars" (any other node)                                    *)
(*   name      macroname or environmentname                                *)
(*   arg       nodeargs[0].nodelist[0].chars of a macro                    *)
(*   nodelist  the children of an environment                              *)
(***************************************************************************)
Macro(name, arg) == [type |-> "macro", name |-> name, arg |-> arg, nodelist |-> <<>>]
Env(name, nodelist) == [type |-> "env", name |-> name, arg |-> None, nodelist |-> nodelist]
Chars == [type |-> "chars", name |-> None, arg |-> None, nodelist |-> <<>>]

\* The reference commands add_edges recognizes.
RefMacros == {"Cref", "cref", "ref", "eqref", "autoref", "nameref"}
\* The environments add_nodes looks into.
MathEnvs == {"equation", "align"}

(***************************************************************************)
(* The state of one construction, LatexSectionsGraph(file_path,            *)
(* use_subsubsection, use_subsection, node_threshold).                     *)
(***************************************************************************)
VARIABLES
    file_path,           \* constructor argument, as verify_tex_path reads it:
                         \* [exists, suffix] of Path(file_path)
    error,               \* the exception the constructor has raised, or None
    attrs,               \* the attributes of self assigned so far
    body,                \* the content of the file: the node list of the
                         \* document environment once parsed
    use_subsubsection,   \* constructor argument
    use_subsection,      \* constructor argument
    node_threshold,      \* constructor argument: <<>> until the pruning reads
                         \* it, <<threshold>> from then on
    pc,                  \* the stage __init__ is in
    i,                   \* the position of the running pass in body
    prev_section,        \* the context slots of the running pass
    prev_subsection,
    prev_subsubsection,
    label_section_map,   \* label name -> title, built by add_nodes
    graph                \* self.graph: [nodes, edges], edges a bag of pairs

vars == <<file_path, error, attrs, body, use_subsubsection, use_subsection, node_threshold, pc, i,
          prev_section, prev_subsection, prev_subsubsection,
          label_section_map, graph>>

ctx == <<prev_section, prev_subsection, prev_subsubsection>>

\* What the constructor leaves alone once the file is parsed and the graph
\* created.
setup == <<file_path, error, attrs>>

(***************************************************************************)
(* verify_tex_path                                                         *)
(***************************************************************************)
\* Without the test of the suffix.
VerifyErrorExistsOnly(fp) ==
    IF ~fp.exists THEN "FileNotFoundError" ELSE None

\* The exception verify_tex_path raises for the path, None when it returns.
VerifyError(fp) ==
    IF ~fp.exists THEN "FileNotFoundError"
    ELSE IF ~(fp.suffix = ".tex") THEN "ValueError"
    ELSE None

(***************************************************************************)
(* networkx.DiGraph, as far as the class uses it.                          *)
(***************************************************************************)
\* nx.DiGraph(): no node, no edge.
DiGraph == [nodes |-> {}, edges |-> EmptyBag]

\* A second add_edge of the same pair would add a parallel edge.
MultiAddEdge(G, u, v) ==
    [nodes |-> G.nodes \cup {u, v}, edges |-> G.edges (+) SetToBag({<<u, v>>})]

\* G.add_edge(u, v): both endpoints become nodes; the pair is stored once
\* (the adjacency is a dict keyed by the endpoints).
add_edge(G, u, v) ==
    [nodes |-> G.nodes \cup {u, v},
     edges |-> IF BagIn(<<u, v>>, G.edges) THEN G.edges
               ELSE G.edges (+) SetToBag({<<u, v>>})]

EdgeSet(G) == BagToSet(G.edges)

\* G.degree(): in-degree + out-degree, a self-loop counting twice.
RECURSIVE SumCopies(_, _)
SumCopies(B, S) ==
    IF S = {} THEN 0
    ELSE LET e == CHOOSE x \in S : TRUE
         IN  CopiesIn(e, B) + SumCopies(B, S \ {e})

degree(G, n) ==
    SumCopies(G.edges, {e \in EdgeSet(G) : e[1] = n})
    + SumCopies(G.edges, {e \in EdgeSet(G) : e[2] = n})

\* G.remove_nodes_from(remove): the nodes go, and every edge at one of them.
remove_nodes_from(G, remove) ==
    [nodes |-> G.nodes \ remove,
     edges |-> [e \in {x \in EdgeSet(G) : x[1] \notin remove /\ x[2] \notin remove}
                    |-> G.edges[e]]]

(***************************************************************************)
(* add_nodes: the first pass, which builds the label map.                  *)
(***************************************************************************)
\* With setdefault in place of the assignment, the first declaration of a
\* label would win.
MapPutFirst(m, k, v) ==
    [x \in (DOMAIN m) \cup {k} |-> IF x \in DOMAIN m THEN m[x] ELSE v]

\* label_section_map[label_name] = unit
MapPut(m, k, v) == [x \in (DOMAIN m) \cup {k} |-> IF x = k THEN v ELSE m[x]]

\* With the two flags left out of the tests, a label would be recorded under
\* a subsection or a subsubsection whose level is switched off.
LabelUnitAnyLevel(sec, sub, subsub, uss, us) ==
    IF subsub # None THEN subsub
    ELSE IF sub # None THEN sub
    ELSE IF sec # None THEN sec
    ELSE None

\* The unit a label is recorded under, from the slots and the two flags;
\* None when no branch of the if/elif/elif assigns.
LabelUnit(sec, sub, subsub, uss, us) ==
    IF subsub # None /\ uss THEN subsub
    ELSE IF sub # None /\ us THEN sub
    ELSE IF sec # None THEN sec
    ELSE None

\* One label command: the map after it.
RecordLabel(m, label_name, sec, sub, subsub, uss, us) ==
    LET unit == LabelUnit(sec, sub, subsub, uss, us)
    IN  IF unit # None THEN MapPut(m, label_name, unit) ELSE m

\* The loop over the children of an equation or align environment, from
\* child k on: every label command among them is recorded.
RECURSIVE ScanMath(_, _, _, _, _, _, _, _)
ScanMath(m, nodelist, k, sec, sub, subsub, uss, us) ==
    IF k > Len(nodelist) THEN m
    ELSE LET sub_node == nodelist[k]
             m2 == IF sub_node.type = "macro" /\ sub_node.name = "label"
                   THEN RecordLabel(m, sub_node.arg, sec, sub, subsub, uss, us)
                   ELSE m
         IN  ScanMath(m2, nodelist, k + 1, sec, sub, subsub, uss, us)

\* Were the subsection slot to outlive the section it was set in.
NodesCtxKeepsSubsection(node, c) ==
    IF node.type # "macro" THEN c
    ELSE IF node.name = "section" THEN <<node.arg, c[2], None>>
    ELSE IF node.name = "subsection" THEN <<c[1], node.arg, None>>
    ELSE IF node.name = "subsubsection" THEN <<c[1], c[2], node.arg>>
    ELSE c

\* The context slots after a body node, in add_nodes: every heading is
\* tracked, whatever the flags.
NodesCtx(node, c) ==
    IF node.type # "macro" THEN c
    ELSE IF node.name = "section" THEN <<node.arg, None, None>>
    ELSE IF node.name = "subsection" THEN <<c[1], node.arg, None>>
    ELSE IF node.name = "subsubsection" THEN <<c[1], c[2], node.arg>>
    ELSE c

\* A pass that looked at the commands of the body only would miss the labels
\* of the equations.
NodesMapBodyOnly(node, m, c, uss, us) ==
    IF node.type = "macro" /\ node.name = "label"
        THEN RecordLabel(m, node.arg, c[1], c[2], c[3], uss, us)
    ELSE m

\* The label map after a body node, in add_nodes.
NodesMap(node, m, c, uss, us) ==
    IF node.type = "env" /\ node.name \in MathEnvs
        THEN ScanMath(m, node.nodelist, 1, c[1], c[2], c[3], uss, us)
    ELSE IF node.type = "macro" /\ node.name = "label"
        THEN RecordLabel(m, node.arg, c[1], c[2], c[3], uss, us)
    ELSE m

\* Had add_nodes added the unit of each label as a node, as its docstring
\* says, a document without references would leave nodes in the graph.
NodesGraphAddsUnit(node, G, c, uss, us) ==
    IF node.type = "macro" /\ node.name = "label" /\ LabelUnit(c[1], c[2], c[3], uss, us) # None
    THEN [G EXCEPT !.nodes = @ \cup {LabelUnit(c[1], c[2], c[3], uss, us)}]
    ELSE G

\* The graph after a body node, in add_nodes: the pass never touches it.
NodesGraph(node, G, c, uss, us) == G

(***************************************************************************)
(* add_edges: the second pass, which links the references.                 *)
(***************************************************************************)
\* A pass that tracked every heading, as add_nodes does, would resolve a
\* reference to a unit of a level that is switched off.
EdgesCtxAnyLevel(node, c, uss, us) ==
    IF node.type # "macro" THEN c
    ELSE IF node.name = "section" THEN <<node.arg, None, None>>
    ELSE IF node.name = "subsection" THEN <<c[1], node.arg, None>>
    ELSE IF node.name = "subsubsection" THEN <<c[1], c[2], node.arg>>
    ELSE c

\* The context slots after a body node, in add_edges: a subsection or a
\* subsubsection command is tracked only when its flag is set.
EdgesCtx(node, c, uss, us) ==
    IF node.type # "macro" THEN c
    ELSE IF node.name = "section" THEN <<node.arg, None, None>>
    ELSE IF node.name = "subsection" /\ us THEN <<c[1], node.arg, None>>
    ELSE IF node.name = "subsubsection" /\ uss THEN <<c[1], c[2], node.arg>>
    ELSE c

\* The unit a reference belongs to: the innermost slot that holds a title
\* (the if/elif/elif over the slots), None when none does.
SourceUnit(c) ==
    IF c[3] # None THEN c[3]
    ELSE IF c[2] # None THEN c[2]
    ELSE IF c[1] # None THEN c[1]
    ELSE None

\* A reference command is a macro of the body whose name is one of the six.
IsReference(node) == node.type = "macro" /\ node.name \in RefMacros

\* Without the comparison of the two units, a unit that refers to its own
\* label would be linked to itself.
LinkReferenceSelf(G, m, label_name, source) ==
    IF label_name \in DOMAIN m /\ source # None
    THEN add_edge(G, m[label_name], source)
    ELSE G

\* With label_section_map.get(label_name) in place of the membership test, an
\* unknown label would be linked as the unit None.
LinkReferenceGet(G, m, label_name, source) ==
    LET target == IF label_name \in DOMAIN m THEN m[label_name] ELSE None
    IN  IF source # None /\ source # target THEN add_edge(G, target, source) ELSE G

\* Were a reference from the unit of its own label to add that unit as a
\* node, the raw graph would hold a node without an edge.
LinkReferenceAddsNode(G, m, label_name, source) ==
    IF label_name \in DOMAIN m /\ source # None
    THEN IF source # m[label_name]
         THEN add_edge(G, m[label_name], source)
         ELSE [G EXCEPT !.nodes = @ \cup {source}]
    ELSE G

\* The graph after a reference to label_name from the unit source.
LinkReference(G, m, label_name, source) ==
    IF label_name \in DOMAIN m /\ source # None /\ source # m[label_name]
    THEN add_edge(G, m[label_name], source)
    ELSE G

\* The graph after a body node, in add_edges; c is the context after the
\* node's own heading update.
EdgesGraph(node, G, m, c) ==
    IF IsReference(node) THEN LinkReference(G, m, node.arg, SourceUnit(c)) ELSE G

(***************************************************************************)
(* remove_lightly_connected_nodes                                          *)
(***************************************************************************)
\* With the comparison turned round, the nodes of high degree would go.
HeavilyConnected(G, threshold) == {n \in G.nodes : degree(G, n) >= threshold}

\* With the threshold taken one too low, a node one edge short would stay.
LightlyConnectedOffByOne(G, threshold) == {n \in G.nodes : degree(G, n) + 1 < threshold}

\* The list `remove` is computed from the degrees of the graph as it is,
\* then all of it is removed at once.
LightlyConnected(G, threshold) == {n \in G.nodes : degree(G, n) < threshold}

\* A removal that looked at the degrees again after each round would go on
\* until no node is below the threshold.
RECURSIVE RemoveCascading(_, _)
RemoveCascading(G, threshold) ==
    IF LightlyConnected(G, threshold) = {} THEN G
    ELSE RemoveCascading(remove_nodes_from(G, LightlyConnected(G, threshold)), threshold)

remove_lightly_connected_nodes(G, threshold) ==
    remove_nodes_from(G, LightlyConnected(G, threshold))

(***************************************************************************)
(* The documents and the arguments of the model.                           *)
(***************************************************************************)
SeqsUpTo(S, n) == UNION {[1..k -> S] : k \in 0..n}

Headings == {"section", "subsection", "subsubsection"}

\* Short documents: every heading level under each of two titles (so that
\* units of different levels can share a title), a label, references to it
\* by two of the commands, and math environments around a label and around
\* a reference.
Titles == {"A", "B"}
Nodes ==
    {Macro(h, t) : h \in Headings, t \in Titles}
    \cup {Macro("label", "a"), Macro("ref", "a"), Macro("eqref", "a")}
    \cup {Env("equation", <<Macro("label", "a")>>), Env("align", <<Macro("eqref", "a")>>)}

\* Longer documents: two sections, a subsection and a subsubsection whose
\* titles differ across the levels, a label, a reference and plain text.
SectionTitles == {"A", "B"}
SubsectionTitles == {"C"}
SubsubsectionTitles == {"D"}
LongNodes ==
    {Macro("section", t) : t \in SectionTitles}
    \cup {Macro("subsection", t) : t \in SubsectionTitles}
    \cup {Macro("subsubsection", t) : t \in SubsubsectionTitles}
    \cup {Macro("label", "a"), Macro("ref", "a"), Chars}

\* The graphs add_edges can leave: any set of edges between distinct titles,
\* each stored once, the nodes being the endpoints.
GraphTitles == {"A", "B", "C", "D"}
RawGraphs ==
    {[nodes |-> {e[1] : e \in E} \cup {e[2] : e \in E}, edges |-> SetToBag(E)] :
        E \in SUBSET {e \in GraphTitles \X GraphTitles : e[1] # e[2]}}

Thresholds == 0..MaxThreshold

(***************************************************************************)
(* __init__: the three stages, in order.                                   *)
(***************************************************************************)
\* A path verify_tex_path accepts.
TexFile == [exists |-> TRUE, suffix |-> ".tex"]

\* The paths given to the constructor: existing or not, with the suffixes
\* Path(file_path).suffix gives for "doc.tex", "doc.txt" and "doc".
Suffixes == {".tex", ".txt", ""}
FilePaths == [exists : BOOLEAN, suffix : Suffixes]

\* self.file_path, self.file_content, self.soup, self.graph
ParsedAttrs == {"file_path", "file_content", "soup"}
AllAttrs == ParsedAttrs \cup {"graph"}

\* After construction of the object up to the call of add_nodes: the file
\* is parsed, the graph is empty, the slots and the map of add_nodes are
\* fresh.
InitOver(bodies) ==
    /\ file_path = TexFile
    /\ error = None
    /\ attrs = AllAttrs
    /\ body \in bodies
    /\ use_subsubsection \in BOOLEAN
    /\ use_subsection \in BOOLEAN
    /\ node_threshold = <<>>
    /\ pc = "add_nodes"
    /\ i = 1
    /\ prev_section = None
    /\ prev_subsection = None
    /\ prev_subsubsection = None
    /\ label_section_map = <<>>
    /\ graph = DiGraph

\* One iteration of the loop of add_nodes over the body.
AddNodesStep ==
    /\ UNCHANGED setup
    /\ pc = "add_nodes"
    /\ i <= Len(body)
    /\ LET node == body[i]
           c == NodesCtx(node, ctx)
       IN  /\ label_section_map' =
                  NodesMap(node, label_section_map, ctx, use_subsubsection, use_subsection)
           /\ prev_section' = c[1]
           /\ prev_subsection' = c[2]
           /\ prev_subsubsection' = c[3]
           /\ graph' = NodesGraph(node, graph, c, use_subsubsection, use_subsection)
    /\ i' = i + 1
    /\ UNCHANGED <<body, use_subsubsection, use_subsection, node_threshold, pc>>

\* Were add_nodes to return at any point of its loop.
AddNodesReturnEarly ==
    /\ UNCHANGED setup
    /\ pc = "add_nodes"
    /\ pc' = "add_edges"
    /\ i' = 1
    /\ prev_section' = None
    /\ prev_subsection' = None
    /\ prev_subsubsection' = None
    /\ UNCHANGED <<body, use_subsubsection, use_subsection, node_threshold,
                   label_section_map, graph>>

\* add_nodes returns the map; add_edges starts with fresh slots.
AddNodesReturn ==
    /\ UNCHANGED setup
    /\ pc = "add_nodes"
    /\ i > Len(body)
    /\ pc' = "add_edges"
    /\ i' = 1
    /\ prev_section' = None
    /\ prev_subsection' = None
    /\ prev_subsubsection' = None
    /\ UNCHANGED <<body, use_subsubsection, use_subsection, node_threshold,
                   label_section_map, graph>>

\* One iteration of the loop of add_edges over the body.
AddEdgesStep ==
    /\ UNCHANGED setup
    /\ pc = "add_edges"
    /\ i <= Len(body)
    /\ LET node == body[i]
           c == EdgesCtx(node, ctx, use_subsubsection, use_subsection)
       IN  /\ prev_section' = c[1]
           /\ prev_subsection' = c[2]
           /\ prev_subsubsection' = c[3]
           /\ graph' = EdgesGraph(node, graph, label_section_map, c)
    /\ i' = i + 1
    /\ UNCHANGED <<body, use_subsubsection, use_subsection, node_threshold, pc,
                   label_section_map>>

\* add_edges returns.
AddEdgesReturn ==
    /\ UNCHANGED setup
    /\ pc = "add_edges"
    /\ i > Len(body)
    /\ pc' = "prune"
    /\ UNCHANGED <<body, use_subsubsection, use_subsection, node_threshold, i,
                   prev_section, prev_subsection, prev_subsubsection,
                   label_section_map, graph>>

\* self.remove_lightly_connected_nodes(node_threshold)
Prune ==
    /\ UNCHANGED setup
    /\ pc = "prune"
    /\ \E threshold \in Thresholds :
          /\ node_threshold' = <<threshold>>
          /\ graph' = remove_lightly_connected_nodes(graph, threshold)
    /\ pc' = "done"
    /\ UNCHANGED <<body, use_subsubsection, use_subsection, i,
                   prev_section, prev_subsection, prev_subsubsection,
                   label_section_map>>

Next ==
    \/ AddNodesStep
    \/ AddNodesReturn
    \/ AddEdgesStep
    \/ AddEdgesReturn
    \/ Prune

Spec == InitOver(SeqsUpTo(Nodes, MaxLen)) /\ [][Next]_vars

SpecLong == InitOver(SeqsUpTo(LongNodes, MaxLenLong)) /\ [][Next]_vars

\* The constructor is one sequential call: a statement that can run does run.
SpecFair == InitOver(SeqsUpTo(LongNodes, MaxLenFair)) /\ [][Next]_vars /\ WF_vars(Next)

\* What the two passes keep true of the graph: the edges join distinct titles,
\* each is stored once, and the nodes are the endpoints of the edges.  It is an
\* invariant of Spec and of SpecLong up to the pruning.
RawGraphShape ==
    pc \in {"add_nodes", "add_edges", "prune"} =>
        /\ graph.nodes \subseteq GraphTitles
        /\ graph.nodes = {e[1] : e \in EdgeSet(graph)} \cup {e[2] : e \in EdgeSet(graph)}
        /\ \A e \in EdgeSet(graph) : e[1] # e[2] /\ CopiesIn(e, graph.edges) = 1

\* The pruning alone, from every graph of that shape: the state at the return
\* of add_edges, of which the pruning reads only the graph.
InitPrune ==
    /\ file_path = TexFile
    /\ error = None
    /\ attrs = AllAttrs
    /\ body = <<>>
    /\ use_subsubsection \in BOOLEAN
    /\ use_subsection \in BOOLEAN
    /\ node_threshold = <<>>
    /\ pc = "prune"
    /\ i = 1
    /\ prev_section = None
    /\ prev_subsection = None
    /\ prev_subsubsection = None
    /\ label_section_map = <<>>
    /\ graph \in RawGraphs

NextPrune == Prune

SpecPrune == InitPrune /\ [][NextPrune]_vars

(***************************************************************************)
(* The constructor from its call: __init__ up to the call of add_nodes.    *)
(***************************************************************************)
\* At the call of the constructor: nothing of self is assigned.  A path that
\* does not exist has no content.
InitConstruct ==
    /\ file_path \in FilePaths
    /\ error = None
    /\ attrs = {}
    /\ body \in SeqsUpTo(Nodes, MaxLenInit)
    /\ ~file_path.exists => body = <<>>
    /\ use_subsubsection \in BOOLEAN
    /\ use_subsection \in BOOLEAN
    /\ node_threshold = <<>>
    /\ pc = "verify"
    /\ i = 1
    /\ prev_section = None
    /\ prev_subsection = None
    /\ prev_subsubsection = None
    /\ label_section_map = <<>>
    /\ graph = DiGraph

\* self.verify_tex_path(file_path): raises, which ends the construction, or
\* returns.
VerifyTexPath ==
    /\ pc = "verify"
    /\ error' = VerifyError(file_path)
    /\ pc' = IF VerifyError(file_path) = None THEN "parse" ELSE "error"
    /\ UNCHANGED <<file_path, attrs, body, use_subsubsection, use_subsection,
                   node_threshold, i, prev_section, prev_subsection,
                   prev_subsubsection, label_section_map, graph>>

\* self.file_path = file_path; self.parse_tex_file()
ParseTexFile ==
    /\ pc = "parse"
    /\ attrs' = attrs \cup ParsedAttrs
    /\ pc' = "graph"
    /\ UNCHANGED <<file_path, error, body, use_subsubsection, use_subsection,
                   node_threshold, i, prev_section, prev_subsection,
                   prev_subsubsection, label_section_map, graph>>

\* self.graph = nx.DiGraph(), then the call of add_nodes with fresh slots and
\* an empty map.
CreateGraph ==
    /\ pc = "graph"
    /\ attrs' = attrs \cup {"graph"}
    /\ graph' = DiGraph
    /\ pc' = "add_nodes"
    /\ i' = 1
    /\ prev_section' = None
    /\ prev_subsection' = None
    /\ prev_subsubsection' = None
    /\ label_section_map' = <<>>
    /\ UNCHANGED <<file_path, error, body, use_subsubsection, use_subsection,
                   node_threshold>>

NextConstruct ==
    \/ VerifyTexPath
    \/ ParseTexFile
    \/ CreateGraph
    \/ Next

SpecConstruct == InitConstruct /\ [][NextConstruct]_vars

(***************************************************************************)
(* Properties of the construction.                                         *)
(***************************************************************************)
\* The context slots of add_edges after the first j nodes of the body.
RECURSIVE EdgesCtxAt(_)
EdgesCtxAt(j) ==
    IF j = 0 THEN <<None, None, None>>
    ELSE EdgesCtx(body[j], EdgesCtxAt(j - 1), use_subsubsection, use_subsection)

\* The positions the running pass has gone through.
Visited == 1..(i - 1)

\* The label map is complete and add_edges is running or has returned.
Linking == pc \in {"add_edges", "prune"}

\* The reference at position j links: its label is in the map, under a unit
\* other than the non-empty unit add_edges resolves at j.
Links(j) ==
    /\ IsReference(body[j])
    /\ body[j].arg \in DOMAIN label_section_map
    /\ SourceUnit(EdgesCtxAt(j)) # None
    /\ SourceUnit(EdgesCtxAt(j)) # label_section_map[body[j].arg]

AtReference == pc = "add_edges" /\ i <= Len(body) /\ IsReference(body[i])

\* The unit add_edges resolves at the node it is about to visit.
UnitHere == SourceUnit(EdgesCtx(body[i], ctx, use_subsubsection, use_subsection))

\* The node the running pass visited last.
Last == body[i - 1]

NoSelfLoop == \A e \in EdgeSet(graph) : e[1] # e[2]

\* C2: the graph never holds an edge (u, u), during the passes and after the
\* pruning; a reference from the unit the map gives for its own label changes
\* neither the edges nor the nodes.
C2_NoSelfLoop ==
    /\ []NoSelfLoop
    /\ [][(/\ AtReference
           /\ body[i].arg \in DOMAIN label_section_map
           /\ UnitHere = label_section_map[body[i].arg])
          => graph' = graph]_vars

\* add_edges has just gone through a reference from the unit of its own label.
C2_Witness ==
    /\ pc = "add_edges"
    /\ i > 1
    /\ IsReference(Last)
    /\ Last.arg \in DOMAIN label_section_map
    /\ SourceUnit(ctx) = label_section_map[Last.arg]

\* C3: every edge (x, y) goes from the unit x that holds a reference command
\* to the unit y the map gives for the label referred to.
C3_EdgeFromReferencing ==
    Linking =>
        \A e \in EdgeSet(graph) :
            \E j \in Visited :
                /\ IsReference(body[j])
                /\ body[j].arg \in DOMAIN label_section_map
                /\ SourceUnit(EdgesCtxAt(j)) = e[1]
                /\ label_section_map[body[j].arg] = e[2]

\* C5: a reference command whose label is not a key of the map changes
\* nothing but the position of the pass: the graph, the context slots and the
\* map stay as they were, and the pass goes on to the next node.
C5_DanglingIgnored ==
    [][(AtReference /\ body[i].arg \notin DOMAIN label_section_map)
       => /\ graph' = graph
          /\ ctx' = ctx
          /\ label_section_map' = label_section_map
          /\ pc' = "add_edges"
          /\ i' = i + 1]_vars

\* add_edges has just gone through a reference, made inside a unit, to a
\* label the map does not hold.
C5_Witness ==
    /\ pc = "add_edges"
    /\ i > 1
    /\ IsReference(Last)
    /\ Last.arg \notin DOMAIN label_section_map
    /\ SourceUnit(ctx) # None

\* In-degree + out-degree of n, counted on the set of edges.
TotalDegree(G, n) ==
    Cardinality({e \in EdgeSet(G) : e[1] = n}) + Cardinality({e \in EdgeSet(G) : e[2] = n})

\* C4: the pruning is one batch: the nodes left are exactly the nodes of the
\* raw graph whose total degree there is at least the threshold, and the edges
\* left are exactly the raw edges between two nodes left (so a node of
\* sufficient raw degree stays, whatever becomes of its neighbours).
C4_BatchRemoval ==
    [][pc = "prune"
       => /\ graph'.nodes = {n \in graph.nodes : TotalDegree(graph, n) >= node_threshold'[1]}
          /\ EdgeSet(graph') =
                 {e \in EdgeSet(graph) : e[1] \in graph'.nodes /\ e[2] \in graph'.nodes}
          /\ \A e \in EdgeSet(graph') : CopiesIn(e, graph'.edges) = CopiesIn(e, graph.edges)]_vars

\* The pruning has kept a node that its removed neighbours leave with fewer
\* edges than the threshold.
C4_Witness ==
    /\ pc = "done"
    /\ \E n \in graph.nodes : TotalDegree(graph, n) < node_threshold[1]

\* A command of the given name.
IsMacro(node, name) == node.type = "macro" /\ node.name = name

\* The least of the positions S of the body, Len(body) + 1 when S is empty.
FirstIn(S) == IF S = {} THEN Len(body) + 1 ELSE CHOOSE j \in S : \A k \in S : j <= k

IsSection(node) == IsMacro(node, "section")

\* A heading of a level that is switched on.
IsEnabledHeading(node) ==
    \/ IsMacro(node, "section")
    \/ IsMacro(node, "subsection") /\ use_subsection
    \/ IsMacro(node, "subsubsection") /\ use_subsubsection

FirstSection == FirstIn({j \in 1..Len(body) : IsSection(body[j])})

FirstEnabledHeading == FirstIn({j \in 1..Len(body) : IsEnabledHeading(body[j])})

\* A label command, directly in the body or as a child of a math environment.
HoldsLabel(node) ==
    \/ node.type = "macro" /\ node.name = "label"
    \/ /\ node.type = "env"
       /\ node.name \in MathEnvs
       /\ \E k \in 1..Len(node.nodelist) :
             node.nodelist[k].type = "macro" /\ node.nodelist[k].name = "label"

\* C6, as claimed: whatever precedes the first section command of the body,
\* no label before it enters the map and no reference before it adds an edge.
C6_BeforeFirstSection ==
    /\ (pc = "add_nodes" /\ i <= FirstSection) => label_section_map = <<>>
    /\ (pc = "add_edges" /\ i <= FirstSection) => graph = DiGraph

\* C6, amended: no label before the first heading of a level that is switched
\* on (section; subsection under use_subsection; subsubsection under
\* use_subsubsection) enters the map, and no reference before it adds an edge.
C6_BeforeFirstEnabledHeading ==
    /\ (pc = "add_nodes" /\ i <= FirstEnabledHeading) => label_section_map = <<>>
    /\ (pc = "add_edges" /\ i <= FirstEnabledHeading) => graph = DiGraph

\* add_edges has gone through a label and then a reference that both follow a
\* subsection command whose level is switched off, and no heading of a level
\* switched on comes before them.
C6_Witness ==
    /\ pc = "add_edges"
    /\ i <= FirstEnabledHeading
    /\ \E h \in Visited : \E k \in Visited : \E j \in Visited :
          /\ h < k
          /\ k < j
          /\ IsMacro(body[h], "subsection")
          /\ HoldsLabel(body[k])
          /\ IsReference(body[j])

IsMathEnv(node) == node.type = "env" /\ node.name \in MathEnvs

\* C7: a reference command that is a child of an equation or align
\* environment is linked like one at the place of the environment: when its
\* label is in the map under a unit other than the non-empty current unit, the
\* edge from that unit to the current unit is in the graph.
C7_ReferenceInMath ==
    (pc = "add_edges" /\ i > 1 /\ IsMathEnv(Last)) =>
        \A k \in 1..Len(Last.nodelist) :
            (/\ IsReference(Last.nodelist[k])
             /\ Last.nodelist[k].arg \in DOMAIN label_section_map
             /\ SourceUnit(ctx) # None
             /\ SourceUnit(ctx) # label_section_map[Last.nodelist[k].arg])
            => BagIn(<<label_section_map[Last.nodelist[k].arg], SourceUnit(ctx)>>, graph.edges)

\* A label in an equation of section A, and an eqref to it in section B.
DefsUse ==
    <<Macro("section", "A"), Env("equation", <<Macro("label", "a")>>),
      Macro("section", "B"), Macro("eqref", "a")>>

LastIn(S) == IF S = {} THEN 0 ELSE CHOOSE j \in S : \A k \in S : k <= j

\* The position of the section command that encloses position j, 0 for none.
SecAt(j) == LastIn({k \in 1..j : IsMacro(body[k], "section")})

\* The position of the subsection command that encloses position j: the last
\* one since the enclosing section began.
SubAt(j) == LastIn({k \in (SecAt(j) + 1)..j : IsMacro(body[k], "subsection")})

\* The position of the subsubsection command that encloses position j: the
\* last one since the enclosing section and subsection began.
SubsubAt(j) ==
    LET from == IF SubAt(j) # 0 THEN SubAt(j) ELSE SecAt(j)
    IN  LastIn({k \in (from + 1)..j : IsMacro(body[k], "subsubsection")})

TitleAt(k) == IF k = 0 THEN None ELSE body[k].arg

\* With subsubsections switched off, the unit of position j: the enclosing
\* subsection under use_subsection, if there is one, else the enclosing section.
Collapsed(j) ==
    IF use_subsection /\ SubAt(j) # 0 THEN TitleAt(SubAt(j)) ELSE TitleAt(SecAt(j))

NoReference ==
    \A j \in 1..Len(body) :
        /\ ~IsReference(body[j])
        /\ \A k \in 1..Len(body[j].nodelist) : ~IsReference(body[j].nodelist[k])

C11_PruneMonotonic ==
    [][pc = "prune"
       => LET more == remove_lightly_connected_nodes(graph, node_threshold'[1] + 1)
          IN  /\ more.nodes \subseteq graph'.nodes
              /\ EdgeSet(more) \subseteq EdgeSet(graph')]_vars

\* A pruning has left a graph with edges, of which a threshold one higher
\* would have left less.
C11_Witness ==
    /\ pc = "done"
    /\ EdgeSet(graph) # {}
    /\ \E n \in graph.nodes : TotalDegree(graph, n) = node_threshold[1]

\* The context slots of add_nodes after the first j nodes of the body.
RECURSIVE NodesCtxAt(_)
NodesCtxAt(j) == IF j = 0 THEN <<None, None, None>> ELSE NodesCtx(body[j], NodesCtxAt(j - 1))

\* The unit add_nodes records a label under at position j.
LabelUnitAt(j) ==
    LabelUnit(NodesCtxAt(j)[1], NodesCtxAt(j)[2], NodesCtxAt(j)[3],
              use_subsubsection, use_subsection)

\* The label names declared by the node: its own when it is a label command,
\* those of its label children when it is a math environment.
DeclaredBy(node) ==
    IF IsMacro(node, "label") THEN {node.arg}
    ELSE IF IsMathEnv(node)
         THEN {node.nodelist[k].arg : k \in {x \in 1..Len(node.nodelist) :
                                                 IsMacro(node.nodelist[x], "label")}}
    ELSE {}

\* The positions of the body that declare the label l.
Declarations(l) == {j \in 1..Len(body) : l \in DeclaredBy(body[j])}

DeclaredLabels == UNION {DeclaredBy(body[j]) : j \in 1..Len(body)}

\* C12: a label declared several times, each time inside a unit, is in the map
\* under the unit of its last declaration in the document, and every reference
\* to it that links, before or after that declaration, is linked to that unit.
C12_LastWriteWins ==
    Linking =>
        \A l \in DeclaredLabels :
            (/\ Cardinality(Declarations(l)) >= 2
             /\ \A j \in Declarations(l) : LabelUnitAt(j) # None)
            => /\ l \in DOMAIN label_section_map
               /\ label_section_map[l] = LabelUnitAt(LastIn(Declarations(l)))
               /\ \A r \in Visited :
                      (/\ IsReference(body[r])
                       /\ body[r].arg = l
                       /\ SourceUnit(EdgesCtxAt(r)) # None
                       /\ SourceUnit(EdgesCtxAt(r)) # LabelUnitAt(LastIn(Declarations(l))))
                      => BagIn(<<LabelUnitAt(LastIn(Declarations(l))), SourceUnit(EdgesCtxAt(r))>>,
                               graph.edges)

\* add_edges has returned from a document that declares a label in two units
\* and refers to it from the first, before the second declaration: the edge
\* comes from the second unit.
C12_Witness ==
    /\ pc = "prune"
    /\ \E j \in 1..Len(body) : \E r \in 1..Len(body) : \E k \in 1..Len(body) :
          /\ j < r
          /\ r < k
          /\ IsReference(body[r])
          /\ body[r].arg \in DeclaredBy(body[j]) \cap DeclaredBy(body[k])
          /\ k = LastIn(Declarations(body[r].arg))
          /\ LabelUnitAt(j) # None
          /\ LabelUnitAt(j) # LabelUnitAt(k)
          /\ SourceUnit(EdgesCtxAt(r)) = LabelUnitAt(j)
          /\ EdgeSet(graph) = {<<LabelUnitAt(k), LabelUnitAt(j)>>}

\* The path is one verify_tex_path rejects.
BadPath == ~file_path.exists \/ ~(file_path.suffix = ".tex")

\* C13: with a path that does not exist, or whose suffix is not .tex, the
\* construction goes from the verification to the exception, FileNotFoundError
\* for the first and ValueError for the second, and nowhere else: nothing of
\* self is ever assigned (no file content, no parse, no graph) and no pass has
\* made a step.
C13_InputErrorsFirst ==
    /\ [](BadPath =>
            /\ pc \in {"verify", "error"}
            /\ attrs = {}
            /\ i = 1
            /\ label_section_map = <<>>
            /\ graph = DiGraph
            /\ pc = "verify" => error = None
            /\ pc = "error" =>
                   error = IF ~file_path.exists THEN "FileNotFoundError" ELSE "ValueError")
    /\ [][BadPath /\ pc = "verify" => pc' = "error"]_vars

\* The constructor has raised ValueError for a file that exists.
C13_Witness ==
    /\ pc = "error"
    /\ error = "ValueError"
    /\ file_path.exists
    /\ body # <<>>

IsHeading(node) == node.type = "macro" /\ node.name \in Headings

\* C14: at every position of the body the unit add_nodes records a label
\* under is the unit add_edges gives a reference as its source, whatever the
\* flags; so a reference to a label declared once, with no heading command
\* between the two, does not link.
C14_SameContext ==
    Linking =>
        /\ \A j \in 0..Len(body) : LabelUnitAt(j) = SourceUnit(EdgesCtxAt(j))
        /\ \A j \in 1..Len(body) : \A r \in 1..Len(body) :
               (/\ IsMacro(body[j], "label")
                /\ Declarations(body[j].arg) = {j}
                /\ IsReference(body[r])
                /\ body[r].arg = body[j].arg
                /\ \A k \in 1..Len(body) : IsHeading(body[k]) => (k < j /\ k < r))
               => ~Links(r)

\* C15, as stated: after the construction every node left has, in the graph
\* left, in-degree plus out-degree of at least node_threshold.
C15_FinalDegree ==
    pc = "done" => \A n \in graph.nodes : TotalDegree(graph, n) >= node_threshold[1]

\* C15: every node the pruning leaves had, in the raw graph, in-degree plus
\* out-degree of at least node_threshold; its degree in the graph left may be
\* lower, the edges to the removed nodes having gone with them.
C15_RawDegree ==
    [][pc = "prune"
       => \A n \in graph'.nodes : TotalDegree(graph, n) >= node_threshold'[1]]_vars

\* The pruning with threshold 2 has left nodes and not one edge: the
\* neighbours they had in the raw graph have all been removed.
C15_Witness ==
    /\ pc = "done"
    /\ node_threshold = <<2>>
    /\ graph.nodes # {}
    /\ EdgeSet(graph) = {}

\* The label map add_nodes(uss, us) holds after the first j nodes of the body.
RECURSIVE AddNodesMapAt(_, _, _)
AddNodesMapAt(j, uss, us) ==
    IF j = 0 THEN <<>>
    ELSE NodesMap(body[j], AddNodesMapAt(j - 1, uss, us), NodesCtxAt(j - 1), uss, us)

\* The label map add_nodes(uss, us) returns for the body.
AddNodesMap(uss, us) == AddNodesMapAt(Len(body), uss, us)

\* C16, as stated: the map add_nodes has returned is the map it returns for
\* the same body under each of the four settings of the two flags.
C16_OneMap ==
    pc = "add_edges" =>
        \A uss \in BOOLEAN : \A us \in BOOLEAN : AddNodesMap(uss, us) = label_section_map

\* The declarations of the label l all lie directly in a section or before
\* every section, in no subsection and no subsubsection.
DirectlyInSection(l) ==
    \A j \in Declarations(l) : SubAt(j) = 0 /\ SubsubAt(j) = 0

\* C16: add_nodes takes the two flags and records a label under the innermost
\* level they enable, so the maps of the four settings differ in general; they
\* agree on every label whose declarations all lie directly in a section.
C16_MapsAgreeInSections ==
    pc = "add_edges" =>
        \A uss \in BOOLEAN : \A us \in BOOLEAN : \A l \in DeclaredLabels :
            DirectlyInSection(l) =>
                /\ l \in DOMAIN AddNodesMap(uss, us) <=> l \in DOMAIN label_section_map
                /\ l \in DOMAIN label_section_map =>
                       AddNodesMap(uss, us)[l] = label_section_map[l]

\* add_nodes has returned a map that holds a label declared directly in a
\* section, after a subsection of the part of the document before that section.
C16_Witness ==
    /\ pc = "add_edges"
    /\ \E l \in DOMAIN label_section_map :
          /\ DirectlyInSection(l)
          /\ \E j \in Declarations(l) : \E k \in 1..j : IsMacro(body[k], "subsection")

\* The stages of the constructor, in the order of its statements.
StageRank(p) ==
    CASE p = "add_nodes" -> 1
      [] p = "add_edges" -> 2
      [] p = "prune" -> 3
      [] p = "done" -> 4

\* C17: the construction is a pipeline that ends.  No edge is added while
\* add_nodes runs; from the start of add_edges on the map is the map of the
\* whole body and does not change, so that every reference add_edges has
\* visited that links has its edge, whether its label comes before or after
\* it; add_edges has visited the whole body when the pruning starts, and no
\* edge is added from then on; the stages follow each other in their order,
\* none is entered again, and the construction reaches its end.
C17_StrictPipeline ==
    /\ [](pc = "add_nodes" => graph = DiGraph)
    /\ [](Linking =>
            /\ label_section_map = AddNodesMap(use_subsubsection, use_subsection)
            /\ \A r \in Visited :
                   Links(r) => BagIn(<<label_section_map[body[r].arg],
                                       SourceUnit(EdgesCtxAt(r))>>, graph.edges))
    /\ [](pc \in {"prune", "done"} => i = Len(body) + 1)
    /\ [][/\ StageRank(pc') \in {StageRank(pc), StageRank(pc) + 1}
          /\ pc # "add_nodes" => label_section_map' = label_section_map
          /\ pc \in {"prune", "done"} => EdgeSet(graph') \subseteq EdgeSet(graph)]_vars
    /\ <>(pc = "done")

\* add_edges has returned, having linked a reference that precedes every
\* declaration of its label.
C17_Witness ==
    /\ pc = "prune"
    /\ \E r \in 1..Len(body) :
          /\ Links(r)
          /\ \A j \in Declarations(body[r].arg) : r < j
          /\ BagIn(<<label_section_map[body[r].arg], SourceUnit(EdgesCtxAt(r))>>, graph.edges)

====
